---- MODULE Spec2Model ----
(***************************************************************************)
(* Job-board backend: the authentication dependency (get_current_user)     *)
(* and the four job routes (place_job, read_vacancies, edit_job,           *)
(* delete_job) over the jobs table.                                        *)
(*                                                                         *)
(* Spec     : every request runs to completion before the next starts.     *)
(* ConcSpec : edit and delete requests are split at their await points     *)
(*            (lookup, then update / delete) and interleave freely.        *)
(***************************************************************************)
EXTENDS Integers, FiniteSets, Sequences, Bags, TLC

VARIABLES
    jobs,       \* the jobs table: a set of rows
    nextId,     \* the identifier the next inserted row receives
    creator,    \* history: job id -> user_id the row was created with
    deleted,    \* history: ids a delete request has removed
    prev,       \* history: the jobs table before the last request
    resp,       \* history: the last request and its response
    inflight,   \* ConcSpec: the bag of requests suspended at an await
    applied     \* ConcSpec history: the last write applied to the table

vars == <<jobs, nextId, creator, deleted, prev, resp, inflight, applied>>

\* ------------------------------------------------------------------ bounds
MaxJobs == 3        \* rows ever inserted (Spec)
ConcMaxJobs == 1    \* rows ever inserted (ConcSpec)
MaxSlots == 2       \* requests suspended at the same time (ConcSpec)

\* --------------------------------------------------------------- constants
HTTP_200_OK == 200
HTTP_400_BAD_REQUEST == 400
HTTP_403_FORBIDDEN == 403
HTTP_405_METHOD_NOT_ALLOWED == 405
HTTP_500_INTERNAL_SERVER_ERROR == 500   \* an exception no handler catches

\* Python's None, for a record-valued and for a string-valued expression.
None == [none |-> TRUE]
NoneStr == "<None>"

\* ------------------------------------------------------------- users table
Users ==
    { [id |-> 1, name |-> "acme",    email |-> "acme@x",    is_company |-> TRUE],
      [id |-> 2, name |-> "bob",     email |-> "bob@x",     is_company |-> FALSE],
      [id |-> 3, name |-> "initech", email |-> "initech@x", is_company |-> TRUE] }

\* Bearer tokens a client may send.
Tokens == {"expired", "nosub", "ghost", "tokA", "tokB", "tokC"}
NoToken == "absent"

\* Request bodies (SJob): title, description, salary_from, salary_to, is_active.
Bodies ==
    { [title |-> "t1", description |-> "d1", salary_from |-> 1, salary_to |-> 2,
       is_active |-> TRUE],
      [title |-> "t2", description |-> "d2", salary_from |-> 3, salary_to |-> 4,
       is_active |-> FALSE] }

\* Job ids a client may name: every id ever generated and one never generated.
JobIds == 1 .. (MaxJobs + 1)

\* ------------------------------------------------------------- token codec
\* decode(token) -> Payload | null
decode_token(token) ==
    CASE token = "expired" -> None
      [] token = "nosub"   -> [exp |-> 1]
      [] token = "ghost"   -> [sub |-> "ghost@x", exp |-> 1]
      [] token = "tokA"    -> [sub |-> "acme@x", exp |-> 1]
      [] token = "tokB"    -> [sub |-> "bob@x", exp |-> 1]
      [] token = "tokC"    -> [sub |-> "initech@x", exp |-> 1]
      [] OTHER             -> None

\* dict.get("sub")
payload_get_sub(payload) ==
    IF "sub" \in DOMAIN payload THEN payload.sub ELSE NoneStr

\* user_queries.get_by_email
get_by_email(email) ==
    IF \E u \in Users : u.email = email
    THEN CHOOSE u \in Users : u.email = email
    ELSE None

\* ---------------------------------------------------- authentication (user.py)
cred_exception ==
    [raised |-> TRUE, status |-> HTTP_403_FORBIDDEN,
     detail |-> <<"Credentials ne validny">>, user |-> None]

\* A mutant: the unknown-user case reports its own message.
get_current_user_leaky(token) ==
    LET payload == decode_token(token) IN
    IF payload = None THEN cred_exception
    ELSE LET email == payload_get_sub(payload) IN
         IF email = NoneStr THEN cred_exception
         ELSE LET user == get_by_email(email) IN
              IF user = None
              THEN [cred_exception EXCEPT !.detail = <<"User not found">>]
              ELSE [raised |-> FALSE, status |-> HTTP_200_OK,
                    detail |-> <<>>, user |-> user]

get_current_user(token) ==
    LET payload == decode_token(token) IN
    IF payload = None THEN cred_exception
    ELSE LET email == payload_get_sub(payload) IN
         IF email = NoneStr THEN cred_exception
         ELSE LET user == get_by_email(email) IN
              IF user = None THEN cred_exception
              ELSE [raised |-> FALSE, status |-> HTTP_200_OK,
                    detail |-> <<>>, user |-> user]

\* ------------------------------------------------------------ job repository
\* convert_job_schema_to_dm(user_id, schema)
convert_job_schema_to_dm(user_id, schema) ==
    [user_id |-> user_id, title |-> schema.title,
     description |-> schema.description, salary_from |-> schema.salary_from,
     salary_to |-> schema.salary_to, is_active |-> schema.is_active]

\* RepoJob.add: the persisted row, with its generated identifier
added_row(id, dm) ==
    [id |-> id, user_id |-> dm.user_id, title |-> dm.title,
     description |-> dm.description, salary_from |-> dm.salary_from,
     salary_to |-> dm.salary_to, is_active |-> dm.is_active]

\* RepoJob.get_all
get_all(js) == js

\* RepoJob.get_by_id: the row, or None when no row matches
get_by_id(js, id) ==
    IF \E r \in js : r.id = id THEN CHOOSE r \in js : r.id = id ELSE None

\* RepoJob.update: overwrites the mutable fields of the row matching dm.id
updated_row(r, dm) ==
    [r EXCEPT !.title = dm.title, !.description = dm.description,
              !.salary_from = dm.salary_from, !.salary_to = dm.salary_to,
              !.is_active = dm.is_active]

update(js, dm) ==
    { IF r.id = dm.id THEN updated_row(r, dm) ELSE r : r \in js }

\* RepoJob.del_by_id: the table without the row, and the identifier returned
del_by_id(js, id) == { r \in js : r.id # id }
del_by_id_result(id) == id

\* SJob.from_orm: the response schema read off a row
from_orm(row) ==
    [id |-> row.id, user_id |-> row.user_id, title |-> row.title,
     description |-> row.description, salary_from |-> row.salary_from,
     salary_to |-> row.salary_to, is_active |-> row.is_active]

\* ------------------------------------------- route handlers (job_router.py)
\* Mutants of the authorization predicates and of the records the handlers build.
place_job_authorized_any(current_user) == TRUE
edit_job_authorized_any(job_to_edit, current_user) == TRUE
delete_job_authorized_company_only(job_to_del, current_user) ==
    current_user.is_company
delete_job_faults_eager(job_to_del, current_user) == job_to_del = None
place_job_dm_anonymous(current_user, job_in_schema) ==
    convert_job_schema_to_dm(0, job_in_schema)
edit_job_schema_keeps_active(job_id, job_in_schema) ==
    [id |-> job_id, title |-> job_in_schema.title,
     description |-> job_in_schema.description,
     salary_from |-> job_in_schema.salary_from,
     salary_to |-> job_in_schema.salary_to, is_active |-> TRUE]
delete_job_authorized_not_owner(job_to_del, current_user) ==
    current_user.is_company /\ job_to_del.user_id # current_user.id
place_job_authorized_non_company(current_user) == ~current_user.is_company

\* place_job, line 35
place_job_authorized(current_user) == current_user.is_company

\* place_job, line 36
place_job_dm(current_user, job_in_schema) ==
    convert_job_schema_to_dm(current_user.id, job_in_schema)

\* edit_job, line 88: job_to_edit.user_id raises on None
edit_job_faults(job_to_edit) == job_to_edit = None

\* edit_job, line 88
edit_job_authorized(job_to_edit, current_user) ==
    job_to_edit.user_id = current_user.id

\* edit_job, lines 89-96: DMJob without user_id
edit_job_schema(job_id, job_in_schema) ==
    [id |-> job_id, title |-> job_in_schema.title,
     description |-> job_in_schema.description,
     salary_from |-> job_in_schema.salary_from,
     salary_to |-> job_in_schema.salary_to,
     is_active |-> job_in_schema.is_active]

\* delete_job, line 129: `and` evaluates job_to_del.user_id only for a company
delete_job_faults(job_to_del, current_user) ==
    current_user.is_company /\ job_to_del = None

\* delete_job, line 129 (conjunction evaluated left to right)
delete_job_authorized(job_to_del, current_user) ==
    current_user.is_company /\ job_to_del.user_id = current_user.id

\* delete_job, line 131
delete_job_report(job_id, result) ==
    [id |-> job_id, message |-> <<"Vakansiya udalena", result>>]

\* read_vacancies, lines 60-63
read_vacancies(js) == { from_orm(orm_obj) : orm_obj \in get_all(js) }

\* HTTPException raised by a handler
HTTPException(status_code, msg, name, job_id) ==
    [status |-> status_code,
     detail |-> [msg |-> msg, name |-> name, job_id |-> job_id]]

\* The response recorded for a request.
Response(req, user, ran, status, detail, result) ==
    [req |-> req, user |-> user, ran |-> ran, status |-> status,
     detail |-> detail, result |-> result]

Rejected(req, auth) ==
    Response(req, None, FALSE, auth.status, auth.detail, None)

Raised(req, user, exc) ==
    Response(req, user, TRUE, exc.status, exc.detail, None)

Fault(req, user) ==
    Response(req, user, TRUE, HTTP_500_INTERNAL_SERVER_ERROR, <<>>, None)

NoRequest == [op |-> "none", token |-> NoToken, job_id |-> 0, body |-> None]

\* ---------------------------------------------------------------- Init
Init ==
    /\ jobs = {}
    /\ nextId = 1
    /\ creator = [i \in {} |-> 0]
    /\ deleted = {}
    /\ prev = {}
    /\ resp = Response(NoRequest, None, FALSE, HTTP_200_OK, <<>>, None)
    /\ inflight = EmptyBag
    /\ applied = [kind |-> "none"]

\* ------------------------------------------------ Spec: one request at a time
\* POST /job
PlaceJob(token, job_in_schema) ==
    LET req  == [op |-> "create", token |-> token, job_id |-> 0,
                 body |-> job_in_schema]
        auth == get_current_user(token)
        current_user == auth.user
    IN
    /\ prev' = jobs
    /\ UNCHANGED <<deleted, inflight, applied>>
    /\ IF auth.raised
       THEN /\ resp' = Rejected(req, auth)
            /\ UNCHANGED <<jobs, nextId, creator>>
       ELSE IF place_job_authorized(current_user)
       THEN LET job_dm == place_job_dm(current_user, job_in_schema)
                res    == added_row(nextId, job_dm)
            IN /\ nextId <= MaxJobs
               /\ jobs' = jobs \cup {res}
               /\ nextId' = nextId + 1
               /\ creator' = (nextId :> job_dm.user_id) @@ creator
               /\ resp' = Response(req, current_user, TRUE, HTTP_200_OK, <<>>,
                                   from_orm(res))
       ELSE /\ resp' = Raised(req, current_user,
                    HTTPException(HTTP_405_METHOD_NOT_ALLOWED,
                                  "ne kompaniya", current_user.name, 0))
            /\ UNCHANGED <<jobs, nextId, creator>>

\* GET /job/jobs: no authentication dependency
ReadVacancies(token) ==
    LET req == [op |-> "list", token |-> token, job_id |-> 0, body |-> None] IN
    /\ prev' = jobs
    /\ resp' = Response(req, None, TRUE, HTTP_200_OK, <<>>, read_vacancies(jobs))
    /\ UNCHANGED <<jobs, nextId, creator, deleted, inflight, applied>>

\* PUT /job/{job_id}
EditJob(token, job_id, job_in_schema) ==
    LET req  == [op |-> "edit", token |-> token, job_id |-> job_id,
                 body |-> job_in_schema]
        auth == get_current_user(token)
        current_user == auth.user
        job_to_edit  == get_by_id(jobs, job_id)
    IN
    /\ prev' = jobs
    /\ UNCHANGED <<nextId, creator, deleted, inflight, applied>>
    /\ IF auth.raised
       THEN /\ resp' = Rejected(req, auth)
            /\ UNCHANGED jobs
       ELSE IF edit_job_faults(job_to_edit)
       THEN /\ resp' = Fault(req, current_user)
            /\ UNCHANGED jobs
       ELSE IF edit_job_authorized(job_to_edit, current_user)
       THEN LET job_schema == edit_job_schema(job_id, job_in_schema)
                updated    == update(jobs, job_schema)
            IN /\ jobs' = updated
               /\ resp' = Response(req, current_user, TRUE, HTTP_200_OK, <<>>,
                                   from_orm(get_by_id(updated, job_schema.id)))
       ELSE /\ resp' = Raised(req, current_user,
                    HTTPException(HTTP_405_METHOD_NOT_ALLOWED,
                                  "ne avtor", current_user.name, job_id))
            /\ UNCHANGED jobs

\* DELETE /job/{job_id}
DeleteJob(token, job_id) ==
    LET req  == [op |-> "delete", token |-> token, job_id |-> job_id,
                 body |-> None]
        auth == get_current_user(token)
        current_user == auth.user
        job_to_del   == get_by_id(jobs, job_id)
    IN
    /\ prev' = jobs
    /\ UNCHANGED <<nextId, creator, inflight, applied>>
    /\ IF auth.raised
       THEN /\ resp' = Rejected(req, auth)
            /\ UNCHANGED <<jobs, deleted>>
       ELSE IF delete_job_faults(job_to_del, current_user)
       THEN /\ resp' = Fault(req, current_user)
            /\ UNCHANGED <<jobs, deleted>>
       ELSE IF delete_job_authorized(job_to_del, current_user)
       THEN /\ jobs' = del_by_id(jobs, job_id)
            /\ deleted' = deleted \cup {job_id}
            /\ resp' = Response(req, current_user, TRUE, HTTP_200_OK, <<>>,
                                delete_job_report(job_id, del_by_id_result(job_id)))
       ELSE /\ resp' = Raised(req, current_user,
                    HTTPException(HTTP_400_BAD_REQUEST,
                                  "ne udalena", current_user.name, job_id))
            /\ UNCHANGED <<jobs, deleted>>

Next ==
    \/ \E t \in Tokens, b \in Bodies : PlaceJob(t, b)
    \/ \E t \in Tokens \cup {NoToken} : ReadVacancies(t)
    \/ \E t \in Tokens, i \in JobIds, b \in Bodies : EditJob(t, i, b)
    \/ \E t \in Tokens, i \in JobIds : DeleteJob(t, i)

Spec == Init /\ [][Next]_vars


\* ------------------------------ ConcSpec: requests interleave at awaits
ConcJobIds == 1 .. ConcMaxJobs
NoWrite == [kind |-> "none"]

\* A handler reaches an await and is suspended; later it is resumed.
Suspend(r) ==
    /\ BagCardinality(inflight) < MaxSlots
    /\ inflight' = inflight (+) SetToBag({r})

Resume(r) == inflight' = inflight (-) SetToBag({r})

\* What a suspended handler later reads of its lookup result: user_id.
Held(row) == IF row = None THEN None ELSE [user_id |-> row.user_id]

\* The write a step applies: who issues it, and the row it meets in the table.
Write(kind, current_user, row) ==
    [kind |-> kind, by |-> current_user.id, company |-> current_user.is_company,
     id |-> IF row = None THEN 0 ELSE row.id,
     owner |-> IF row = None THEN 0 ELSE row.user_id]

\* POST /job: the check of line 35 and the one awaited call, add
CPlaceJob(token, job_in_schema) ==
    LET auth == get_current_user(token)
        current_user == auth.user
    IN
    /\ ~auth.raised
    /\ place_job_authorized(current_user)
    /\ nextId <= ConcMaxJobs
    /\ LET job_dm == place_job_dm(current_user, job_in_schema)
           res    == added_row(nextId, job_dm)
       IN /\ jobs' = jobs \cup {res}
          /\ creator' = (nextId :> job_dm.user_id) @@ creator
          /\ applied' = Write("insert", current_user, None)
    /\ nextId' = nextId + 1
    /\ UNCHANGED <<deleted, prev, resp, inflight>>

\* PUT /job/{job_id}, lines 86-87: up to the return of get_by_id
EditLookup(token, job_id, job_in_schema) ==
    LET auth == get_current_user(token) IN
    /\ ~auth.raised
    /\ Suspend([pc |-> "edit", current_user |-> auth.user, job_id |-> job_id,
                job_in_schema |-> job_in_schema,
                job |-> Held(get_by_id(jobs, job_id))])
    /\ applied' = NoWrite
    /\ UNCHANGED <<jobs, nextId, creator, deleted, prev, resp>>

\* PUT /job/{job_id}, lines 88-105: the check and the awaited update
EditUpdate(r) ==
    /\ r.pc = "edit"
    /\ Resume(r)
    /\ IF edit_job_faults(r.job)
       THEN /\ applied' = NoWrite
            /\ UNCHANGED jobs
       ELSE IF edit_job_authorized(r.job, r.current_user)
       THEN /\ jobs' = update(jobs, edit_job_schema(r.job_id, r.job_in_schema))
            /\ applied' = Write("update", r.current_user,
                                get_by_id(jobs, r.job_id))
       ELSE /\ applied' = NoWrite
            /\ UNCHANGED jobs
    /\ UNCHANGED <<nextId, creator, deleted, prev, resp>>

\* DELETE /job/{job_id}, lines 127-128: up to the return of get_by_id
DeleteLookup(token, job_id) ==
    LET auth == get_current_user(token) IN
    /\ ~auth.raised
    /\ Suspend([pc |-> "delete", current_user |-> auth.user, job_id |-> job_id,
                job_in_schema |-> None,
                job |-> Held(get_by_id(jobs, job_id))])
    /\ applied' = NoWrite
    /\ UNCHANGED <<jobs, nextId, creator, deleted, prev, resp>>

\* DELETE /job/{job_id}, lines 129-137: the check and the awaited del_by_id
DeleteRemove(r) ==
    /\ r.pc = "delete"
    /\ Resume(r)
    /\ IF delete_job_faults(r.job, r.current_user)
       THEN /\ applied' = NoWrite
            /\ UNCHANGED <<jobs, deleted>>
       ELSE IF delete_job_authorized(r.job, r.current_user)
       THEN /\ jobs' = del_by_id(jobs, r.job_id)
            /\ deleted' = deleted \cup {r.job_id}
            /\ applied' = Write("delete", r.current_user,
                                get_by_id(jobs, r.job_id))
       ELSE /\ applied' = NoWrite
            /\ UNCHANGED <<jobs, deleted>>
    /\ UNCHANGED <<nextId, creator, prev, resp>>

ConcNext ==
    \/ \E t \in Tokens, b \in Bodies : CPlaceJob(t, b)
    \/ \E t \in Tokens, i \in ConcJobIds, b \in Bodies : EditLookup(t, i, b)
    \/ \E r \in BagToSet(inflight) : EditUpdate(r)
    \/ \E t \in Tokens, i \in ConcJobIds : DeleteLookup(t, i)
    \/ \E r \in BagToSet(inflight) : DeleteRemove(r)

ConcSpec == Init /\ [][ConcNext]_vars

\* ------------------------------------------------------ claims under Spec
Protected == {"create", "edit", "delete"}
Authenticated == resp.req.op \in Protected /\ resp.user \in Users
Target == get_by_id(prev, resp.req.job_id)
Ids(rows) == { r.id : r \in rows }
SameBody(row, body) ==
    /\ row.title = body.title
    /\ row.description = body.description
    /\ row.salary_from = body.salary_from
    /\ row.salary_to = body.salary_to
    /\ row.is_active = body.is_active

AuthFails(token) ==
    LET payload == decode_token(token) IN
    \/ payload = None
    \/ payload_get_sub(payload) = NoneStr
    \/ get_by_email(payload_get_sub(payload)) = None

\* C1: a create, edit or delete request whose token does not decode, whose
\* payload has no 'sub' or whose 'sub' is no user's email ends with 403 and one
\* and the same detail, the handler body does not run and the jobs table is
\* unchanged; otherwise the current user is the user whose email is 'sub'.
\* Listing jobs succeeds whatever the token, also with none.
C1_AuthGate ==
    /\ resp.req.op \in Protected =>
         IF AuthFails(resp.req.token)
         THEN /\ resp.status = 403
              /\ resp.detail = <<"Credentials ne validny">>
              /\ ~resp.ran
              /\ jobs = prev
         ELSE /\ resp.ran
              /\ resp.user \in Users
              /\ resp.user.email = payload_get_sub(decode_token(resp.req.token))
    /\ resp.req.op = "list" => resp.status = 200 /\ resp.ran

C1_Witness ==
    /\ resp.req.op = "delete"
    /\ resp.req.token = "ghost"
    /\ get_by_id(jobs, resp.req.job_id) # None
    /\ resp.status = 403

\* C2: create by an authenticated user with is_company = false answers 405
\* and leaves the set of job rows as it was.
C2_NonCompanyCreate ==
    (Authenticated /\ resp.req.op = "create" /\ ~resp.user.is_company)
        => (resp.status = 405 /\ jobs = prev)

C2_Witness ==
    /\ Authenticated /\ resp.req.op = "create" /\ ~resp.user.is_company
    /\ resp.status = 405
    /\ nextId <= MaxJobs

\* C3: edit of an existing job by an authenticated user who is not its owner
\* answers 405 and leaves every row as it was, company or not.
C3_NonOwnerEdit ==
    (Authenticated /\ resp.req.op = "edit" /\ Target # None
        /\ Target.user_id # resp.user.id)
        => (resp.status = 405 /\ jobs = prev)

C3_Witness ==
    /\ Authenticated /\ resp.req.op = "edit" /\ Target # None
    /\ Target.user_id # resp.user.id
    /\ resp.user.is_company
    /\ ~SameBody(Target, resp.req.body)
    /\ resp.status = 405

\* C4: delete of an existing job by its owner, a company, answers 200 with the
\* requested id, removes exactly that row, and no list of jobs taken afterwards
\* holds an id a delete has removed.
C4_OwnerDelete ==
    /\ (Authenticated /\ resp.req.op = "delete" /\ resp.user.is_company
          /\ Target # None /\ Target.user_id = resp.user.id)
         => /\ resp.status = 200
            /\ resp.result.id = resp.req.job_id
            /\ get_by_id(jobs, resp.req.job_id) = None
            /\ jobs = prev \ {Target}
            /\ resp.req.job_id \in deleted
    /\ Ids(read_vacancies(jobs)) \cap deleted = {}
    /\ (resp.req.op = "list" /\ resp.status = 200)
         => Ids(resp.result) \cap deleted = {}

C4_Witness ==
    /\ resp.req.op = "list"
    /\ deleted # {}
    /\ resp.result # {}
    /\ nextId > MaxJobs

\* C5: delete of an existing job by an authenticated user who is not a company
\* or not its owner answers 400, leaves the table as it was, and the job is
\* still listed.
C5_DeleteRefused ==
    (Authenticated /\ resp.req.op = "delete" /\ Target # None
        /\ (~resp.user.is_company \/ Target.user_id # resp.user.id))
        => /\ resp.status = 400
           /\ jobs = prev
           /\ from_orm(Target) \in read_vacancies(jobs)

C5_Witness ==
    /\ Authenticated /\ resp.req.op = "delete" /\ Target # None
    /\ resp.user.is_company /\ Target.user_id # resp.user.id
    /\ resp.status = 400

\* C6: create by a company adds exactly one row, under an id no row had, owned
\* by the caller and carrying the body's fields; get_by_id on that id returns
\* it, and the rows that existed are unchanged.
C6_CompanyCreate ==
    (Authenticated /\ resp.req.op = "create" /\ resp.user.is_company)
        => /\ resp.status = 200
           /\ LET row == get_by_id(jobs, resp.result.id) IN
              /\ row # None
              /\ row.id \notin Ids(prev)
              /\ jobs = prev \cup {row}
              /\ Cardinality(jobs) = Cardinality(prev) + 1
              /\ row.user_id = resp.user.id
              /\ SameBody(row, resp.req.body)
              /\ from_orm(row) = resp.result

C6_Witness ==
    /\ Authenticated /\ resp.req.op = "create" /\ resp.user.is_company
    /\ resp.status = 200
    /\ prev # {}
    /\ deleted # {}

\* C7: edit of an existing job by its owner answers 200, sets title,
\* description, salary_from, salary_to and is_active to the body's, and keeps
\* the row's id and user_id and every other row.
C7_OwnerEdit ==
    (Authenticated /\ resp.req.op = "edit" /\ Target # None
        /\ Target.user_id = resp.user.id)
        => /\ resp.status = 200
           /\ LET row == get_by_id(jobs, resp.req.job_id) IN
              /\ row # None
              /\ SameBody(row, resp.req.body)
              /\ row.id = Target.id
              /\ row.user_id = Target.user_id
              /\ jobs \ {row} = prev \ {Target}
              /\ Cardinality(jobs) = Cardinality(prev)
              /\ from_orm(row) = resp.result

C7_Witness ==
    /\ Authenticated /\ resp.req.op = "edit" /\ Target # None
    /\ Target.user_id = resp.user.id
    /\ ~SameBody(Target, resp.req.body)
    /\ Cardinality(jobs) >= 2
    /\ resp.status = 200

\* C8: every persisted job has exactly one owner, an existing user who is a
\* company, and its user_id is the one it was created with.
C8_OwnerInvariant ==
    \A r \in jobs :
        /\ Cardinality({u \in Users : u.id = r.user_id}) = 1
        /\ \A u \in Users : u.id = r.user_id => u.is_company
        /\ r.id \in DOMAIN creator
        /\ creator[r.id] = r.user_id

C8_Witness ==
    /\ resp.req.op = "edit" /\ resp.status = 200
    /\ { r.user_id : r \in jobs } = {1, 3}

\* C9 as stated: an edit or delete by an authenticated caller naming an id that
\* matches no row ends in an unhandled fault and leaves the table unchanged.
C9_Original ==
    (Authenticated /\ resp.req.op \in {"edit", "delete"} /\ Target = None)
        => (resp.status = 500 /\ jobs = prev)

\* C9 amended: an edit by any authenticated caller, or a delete by a company,
\* naming an id that matches no row ends in an unhandled fault; a delete by a
\* caller with is_company = false ends in the handler's 400, the lookup result
\* never being read. The table is unchanged in every case.
C9_MissingJob ==
    (Authenticated /\ resp.req.op \in {"edit", "delete"} /\ Target = None)
        => /\ jobs = prev
           /\ IF resp.req.op = "delete" /\ ~resp.user.is_company
              THEN resp.status = 400
              ELSE resp.status = 500

C9_Witness ==
    /\ Authenticated /\ resp.req.op = "delete" /\ Target = None
    /\ ~resp.user.is_company
    /\ resp.req.job_id \in deleted
    /\ resp.status = 400


\* ---------------------------------------------------- claims under ConcSpec
\* C10: under any interleaving of create, edit and delete requests, an update
\* applied to a row comes from a request of the row's owner at that moment, a
\* removal of a row comes from a request of the row's owner, a company, and no
\* row exists under an id after a delete of it has completed.
C10_OwnerWrites ==
    /\ (applied.kind = "update" /\ applied.id # 0)
         => applied.owner = applied.by
    /\ (applied.kind = "delete" /\ applied.id # 0)
         => (applied.owner = applied.by /\ applied.company)
    /\ Ids(jobs) \cap deleted = {}

C10_Witness ==
    /\ applied.kind = "update"
    /\ applied.id = 0
    /\ deleted # {}

====
